---- MODULE Spec2Model ----
(***************************************************************************)
(* RustyWallet expense ledger (contracts/hello-world/src/lib.rs).          *)
(*                                                                         *)
(* The contract keeps three families of keys in instance storage:          *)
(*   Count(owner), Record(owner, id), OwnerIndex(owner).                   *)
(* Each public function is one atomic call: it either runs to its end or   *)
(* panics, and a panic rolls back every write of the call.                 *)
(*                                                                         *)
(* u64 and u128 are modelled with a scaled-down width: U64Max and U128Max  *)
(* stand for u64::MAX and u128::MAX, so that saturating arithmetic is      *)
(* reached by the model checker.                                           *)
(*                                                                         *)
(* The specification of the system also describes an auction ledger with   *)
(* the keys Listing(listing_id) and Bids(listing_id).  lib.rs holds no     *)
(* code for it; its operations are modelled here from its description      *)
(* (spec.md, section 4.2) and run in a specification of their own,         *)
(* SpecAuction.                                                            *)
(***************************************************************************)
EXTENDS Integers, Sequences, FiniteSets, TLC

VARIABLES
    Count,       \* ExpenseKey::Count(owner)      -> u64        (partial map)
    Record,      \* ExpenseKey::Record(owner, id) -> Expense    (partial map)
    OwnerIndex,  \* ExpenseKey::OwnerIndex(owner) -> Vec<u64>   (partial map)
    now,         \* env.ledger().timestamp()
    ret,         \* the last call: its name, arguments and outcome
    issued,      \* history: per owner, the ids add_expense returned, in call order
    removed,     \* history: the (owner, id) pairs a remove_expense call succeeded on
    live,        \* history: per owner, the ids assigned and not removed since
    Listing,     \* Listing(listing_id) -> Listing               (partial map)
    Bids,        \* Bids(listing_id)    -> sequence of (bidder, amount)
    aret         \* the last auction call: its name, arguments and outcome

vars == <<Count, Record, OwnerIndex, now, ret, issued, removed, live,
          Listing, Bids, aret>>

expenseLedger == <<Count, Record, OwnerIndex, now, ret, issued, removed, live>>

auctionLedger == <<Listing, Bids, aret>>

hist == <<issued, removed, live>>

store == <<Count, Record, OwnerIndex>>

----------------------------------------------------------------------------
(* Bounds and scaled widths *)

\* stands for u64::MAX (the width of the per-owner counter), scaled down
U64Max == 2

\* stands for u128::MAX (the width of amounts and totals), scaled down
U128Max == 35

\* add_expense calls explored in one behaviour: enough to pass saturation
MaxAdds == U64Max + 1

Owners == {"alice", "bob"}

\* ledger timestamps the host clock is sampled at: one in day 0 (week 0),
\* one in day 1 (week 0), one in day 7 (week 1)
Times == {43200, 129600, 648000}

\* the (category, amount, note) arguments add_expense is called with
ExpenseArgs == {<<"food", 10, "lunch">>, <<"rent", 20, "">>}

\* ids callers pass to view_expense / remove_expense
IdArgs == 0 .. U64Max

----------------------------------------------------------------------------
(* Host storage: get(key).unwrap_or(default), set(key, value) *)

Has(map, k) == k \in DOMAIN map

GetOr(map, k, default) == IF k \in DOMAIN map THEN map[k] ELSE default

Set(map, k, v) == [x \in (DOMAIN map) \cup {k} |-> IF x = k THEN v ELSE map[x]]

EmptyMap == [x \in {} |-> 0]

----------------------------------------------------------------------------
(* Integer arithmetic of the code *)

DAY == 86400
WEEK == 604800

Min(a, b) == IF a < b THEN a ELSE b

\* u64::wrapping_add, which the code does not use
WrappingAdd64(a, b) == (a + b) % (U64Max + 1)

\* u64::saturating_add
SaturatingAdd64(a, b) == Min(a + b, U64Max)

\* u128::saturating_add
SaturatingAdd128(a, b) == Min(a + b, U128Max)

----------------------------------------------------------------------------
(* The Expense values the code builds *)

\* add_expense: the Expense built from the bumped counter and the ledger time
NewExpense(count, caller, ts, category, amount, note) ==
    [id |-> count, owner |-> caller, ts |-> ts,
     day |-> ts \div DAY, week |-> ts \div WEEK,
     category |-> category, amount |-> amount, note |-> note]

\* a deleted marker whose day and week are derived from the deletion time
DeletedRebucketed(id, caller, ts) ==
    [id |-> id, owner |-> caller, ts |-> ts,
     day |-> ts \div DAY, week |-> ts \div WEEK,
     category |-> "DELETED", amount |-> 0, note |-> ""]

\* remove_expense: the deleted marker
Deleted(id, caller, ts) ==
    [id |-> id, owner |-> caller, ts |-> ts,
     day |-> 0, week |-> 0,
     category |-> "DELETED", amount |-> 0, note |-> ""]

\* a remove_expense that deletes the key instead of overwriting it
EraseRecord(rec, caller, id, ts) ==
    [k \in (DOMAIN rec) \ {<<caller, id>>} |-> rec[k]]

\* a marker written under the id alone: every owner's record of that id is
\* overwritten
MarkDeletedForEveryOwner(rec, caller, id, ts) ==
    [key \in (DOMAIN rec) \cup {<<caller, id>>} |->
        IF key[2] = id THEN Deleted(id, key[1], ts) ELSE rec[key]]

\* remove_expense: set(Record(caller, id), deleted)
MarkDeleted(rec, caller, id, ts) ==
    Set(rec, <<caller, id>>, Deleted(id, caller, ts))

----------------------------------------------------------------------------
(* Pure reads, as functions of the store *)

\* a view that reports a deleted marker as a missing record
ViewExpenseHidesDeleted(rec, owner, id) ==
    IF Has(rec, <<owner, id>>) /\ rec[<<owner, id>>].category # "DELETED"
    THEN [status |-> "ok", val |-> rec[<<owner, id>>]]
    ELSE [status |-> "NotFound", val |-> 0]

\* view_expense: get(Record(owner, id)).expect("expense not found")
ViewExpense(rec, owner, id) ==
    IF Has(rec, <<owner, id>>)
    THEN [status |-> "ok", val |-> rec[<<owner, id>>]]
    ELSE [status |-> "NotFound", val |-> 0]

\* list_my_expense_ids: get(OwnerIndex(owner)).unwrap_or(Vec::new)
ListIds(idx, owner) == GetOr(idx, owner, <<>>)

\* expenses_count: get(Count(owner)).unwrap_or(0)
ExpensesCount(cnt, owner) == GetOr(cnt, owner, 0)

\* a total that forgets to compare the stored bucket with the current one
RECURSIVE TotalLoopAnyBucket(_, _, _, _, _, _, _)
TotalLoopAnyBucket(rec, owner, ids, i, sum, field, bucket) ==
    IF i > Len(ids)
    THEN [status |-> "ok", val |-> sum]
    ELSE IF ~Has(rec, <<owner, ids[i]>>)
         THEN [status |-> "NotFound", val |-> 0]
         ELSE TotalLoopAnyBucket(rec, owner, ids, i + 1,
                  SaturatingAdd128(sum, rec[<<owner, ids[i]>>].amount),
                  field, bucket)

\* the while loop of daily_total / weekly_total; i is the 1-based position,
\* field is "day" or "week", bucket the current day or week
RECURSIVE TotalLoop(_, _, _, _, _, _, _)
TotalLoop(rec, owner, ids, i, sum, field, bucket) ==
    IF i > Len(ids)
    THEN [status |-> "ok", val |-> sum]
    ELSE IF ~Has(rec, <<owner, ids[i]>>)
         THEN [status |-> "NotFound", val |-> 0]
         ELSE LET e == rec[<<owner, ids[i]>>]
              IN  TotalLoop(rec, owner, ids, i + 1,
                            IF e[field] = bucket
                            THEN SaturatingAdd128(sum, e.amount) ELSE sum,
                            field, bucket)

DailyTotal(rec, idx, ts, owner) ==
    TotalLoop(rec, owner, ListIds(idx, owner), 1, 0, "day", ts \div DAY)

WeeklyTotal(rec, idx, ts, owner) ==
    TotalLoop(rec, owner, ListIds(idx, owner), 1, 0, "week", ts \div WEEK)

\* the rebuild loop of remove_expense: ids without every occurrence of id
RECURSIVE RebuildLoop(_, _, _, _)
RebuildLoop(ids, i, out, id) ==
    IF i > Len(ids) THEN out
    ELSE RebuildLoop(ids, i + 1,
                     IF ids[i] # id THEN Append(out, ids[i]) ELSE out, id)

\* a rebuild that leaves the index as it is
RebuildKeepsAll(ids, id) == ids

\* a rebuild that drops only the first occurrence of id
RECURSIVE RebuildFirstOnly(_, _)
RebuildFirstOnly(ids, id) ==
    IF ids = <<>> THEN <<>>
    ELSE IF Head(ids) = id THEN Tail(ids)
         ELSE <<Head(ids)>> \o RebuildFirstOnly(Tail(ids), id)

RebuildIndex(ids, id) == RebuildLoop(ids, 1, <<>>, id)

----------------------------------------------------------------------------
(* History helpers *)

RECURSIVE SumLen(_, _)
SumLen(f, S) ==
    IF S = {} THEN 0
    ELSE LET x == CHOOSE y \in S : TRUE IN Len(f[x]) + SumLen(f, S \ {x})

TotalAdds == SumLen(issued, Owners)

\* the record of a call.  authorized: whether the principal passed as caller
\* authorized the invoking transaction (reads present no authorization);
\* again: a remove_expense that directly follows a remove_expense call with
\* the same caller and id
Call(op, authorized, owner, id, status, val) ==
    [op |-> op, authorized |-> authorized, owner |-> owner, id |-> id,
     status |-> status, val |-> val,
     again |-> (op = "remove_expense" /\ ret.op = op
                /\ ret.owner = owner /\ ret.id = id)]

----------------------------------------------------------------------------
(* Initial state: empty instance storage, the ledger at some time *)

Init ==
    /\ Count = EmptyMap
    /\ Record = EmptyMap
    /\ OwnerIndex = EmptyMap
    /\ now \in Times
    /\ ret = [op |-> "init", authorized |-> FALSE, owner |-> "alice", id |-> 0,
              status |-> "ok", val |-> 0, again |-> FALSE]
    /\ issued = [o \in Owners |-> <<>>]
    /\ removed = {}
    /\ live = [o \in Owners |-> {}]
    /\ Listing = EmptyMap
    /\ Bids = EmptyMap
    /\ aret = [op |-> "init", listing_id |-> 0, caller |-> "none",
               amount |-> 0, status |-> "ok", val |-> "None"]

----------------------------------------------------------------------------
(* Operations.  Every call is one atomic step.  The code of add_expense and   *)
(* remove_expense never asks the host whether caller authorized the call, so *)
(* both run their body whatever the value of authorized.                     *)

add_expense(authorized, caller, category, amount, note) ==
    /\ TotalAdds < MaxAdds
    /\ LET count == SaturatingAdd64(GetOr(Count, caller, 0), 1)
           ts == now
           exp == NewExpense(count, caller, ts, category, amount, note)
           idx == Append(GetOr(OwnerIndex, caller, <<>>), count)
       IN  /\ Count' = Set(Count, caller, count)
           /\ Record' = Set(Record, <<caller, count>>, exp)
           /\ OwnerIndex' = Set(OwnerIndex, caller, idx)
           /\ ret' = Call("add_expense", authorized, caller, count, "ok", count)
           /\ issued' = [issued EXCEPT ![caller] = Append(@, count)]
           /\ live' = [live EXCEPT ![caller] = @ \cup {count}]
    /\ UNCHANGED <<now, removed, auctionLedger>>

view_expense(owner, id) ==
    /\ LET r == ViewExpense(Record, owner, id)
       IN  ret' = Call("view_expense", FALSE, owner, id, r.status, r.val)
    /\ UNCHANGED <<store, now, hist, auctionLedger>>

\* a listing that stores the sequence it returns
list_my_expense_ids_storing(owner) ==
    /\ ret' = Call("list_my_expense_ids", FALSE, owner, 0, "ok",
                   ListIds(OwnerIndex, owner))
    /\ OwnerIndex' = Set(OwnerIndex, owner, ListIds(OwnerIndex, owner))
    /\ UNCHANGED <<Count, Record, now, hist, auctionLedger>>

list_my_expense_ids(owner) ==
    /\ ret' = Call("list_my_expense_ids", FALSE, owner, 0, "ok",
                   ListIds(OwnerIndex, owner))
    /\ UNCHANGED <<store, now, hist, auctionLedger>>

expenses_count(owner) ==
    /\ ret' = Call("expenses_count", FALSE, owner, 0, "ok",
                   ExpensesCount(Count, owner))
    /\ UNCHANGED <<store, now, hist, auctionLedger>>

daily_total(owner) ==
    /\ LET r == DailyTotal(Record, OwnerIndex, now, owner)
       IN  ret' = Call("daily_total", FALSE, owner, 0, r.status, r.val)
    /\ UNCHANGED <<store, now, hist, auctionLedger>>

weekly_total(owner) ==
    /\ LET r == WeeklyTotal(Record, OwnerIndex, now, owner)
       IN  ret' = Call("weekly_total", FALSE, owner, 0, r.status, r.val)
    /\ UNCHANGED <<store, now, hist, auctionLedger>>

\* remove_expense without the existence check of the code
remove_expense_unchecked(authorized, caller, id) ==
    /\ Record' = Set(Record, <<caller, id>>, Deleted(id, caller, now))
    /\ OwnerIndex' = Set(OwnerIndex, caller,
                         RebuildIndex(GetOr(OwnerIndex, caller, <<>>), id))
    /\ ret' = Call("remove_expense", authorized, caller, id, "ok", 0)
    /\ removed' = removed \cup {<<caller, id>>}
    /\ live' = [live EXCEPT ![caller] = @ \ {id}]
    /\ UNCHANGED <<Count, now, issued, auctionLedger>>

remove_expense(authorized, caller, id) ==
    LET key == <<caller, id>> IN
    IF ~Has(Record, key)
    THEN \* expect("expense not found") panics: nothing is written
         /\ ret' = Call("remove_expense", authorized, caller, id, "NotFound", 0)
         /\ UNCHANGED <<store, now, hist, auctionLedger>>
    ELSE /\ Record' = MarkDeleted(Record, caller, id, now)
         /\ OwnerIndex' = Set(OwnerIndex, caller,
                              RebuildIndex(GetOr(OwnerIndex, caller, <<>>), id))
         /\ ret' = Call("remove_expense", authorized, caller, id, "ok", 0)
         /\ removed' = removed \cup {key}
         /\ live' = [live EXCEPT ![caller] = @ \ {id}]
         /\ UNCHANGED <<Count, now, issued, auctionLedger>>

\* the ledger closes: the host clock moves to a later time
Tick(t) ==
    /\ t > now
    /\ now' = t
    /\ UNCHANGED <<store, ret, hist, auctionLedger>>

\* the calls of transactions in which the principal passed as caller
\* authorized the call (reads need no authorization)
Next ==
    \/ \E c \in Owners, x \in ExpenseArgs :
          add_expense(TRUE, c, x[1], x[2], x[3])
    \/ \E o \in Owners, id \in IdArgs : view_expense(o, id)
    \/ \E o \in Owners : list_my_expense_ids(o)
    \/ \E o \in Owners : expenses_count(o)
    \/ \E o \in Owners : daily_total(o)
    \/ \E o \in Owners : weekly_total(o)
    \/ \E c \in Owners, id \in IdArgs : remove_expense(TRUE, c, id)
    \/ \E t \in Times : Tick(t)

Spec == Init /\ [][Next]_vars

\* the same, together with the calls of transactions that the principal
\* passed as caller did not authorize
NextAnyInvoker ==
    \/ \E c \in Owners, x \in ExpenseArgs :
          add_expense(FALSE, c, x[1], x[2], x[3])
    \/ \E c \in Owners, id \in IdArgs : remove_expense(FALSE, c, id)
    \/ Next

SpecAnyInvoker == Init /\ [][NextAnyInvoker]_vars

----------------------------------------------------------------------------
(* Vocabulary of the properties *)

Range(seq) == {seq[i] : i \in 1 .. Len(seq)}

NoDuplicates(seq) ==
    \A i, j \in 1 .. Len(seq) : i # j => seq[i] # seq[j]

\* what the record of (owner, id) adds to a total over the given bucket
Contribution(rec, owner, id, field, bucket) ==
    IF Has(rec, <<owner, id>>) /\ rec[<<owner, id>>][field] = bucket
    THEN rec[<<owner, id>>].amount ELSE 0

\* exact (unbounded) sum over a set of ids
RECURSIVE SumOfIds(_, _, _, _, _)
SumOfIds(rec, owner, ids, field, bucket) ==
    IF ids = {} THEN 0
    ELSE LET id == CHOOSE x \in ids : TRUE
         IN  Contribution(rec, owner, id, field, bucket)
             + SumOfIds(rec, owner, ids \ {id}, field, bucket)

\* exact (unbounded) sum over the entries of a sequence of ids
RECURSIVE SumOfEntries(_, _, _, _, _)
SumOfEntries(rec, owner, ids, field, bucket) ==
    IF ids = <<>> THEN 0
    ELSE Contribution(rec, owner, Head(ids), field, bucket)
         + SumOfEntries(rec, owner, Tail(ids), field, bucket)

Today == now \div DAY
ThisWeek == now \div WEEK

Daily(o) == DailyTotal(Record, OwnerIndex, now, o)
Weekly(o) == WeeklyTotal(Record, OwnerIndex, now, o)

\* the step is a call add_expense(caller, ..), for any arguments and invoker
Adds(caller) ==
    /\ ret'.op = "add_expense" /\ ret'.owner = caller
    /\ \E x \in ExpenseArgs :
           add_expense(ret'.authorized, caller, x[1], x[2], x[3])

\* the step is a call remove_expense(caller, id), for any invoker
Removes(caller, id) ==
    /\ ret'.op = "remove_expense" /\ ret'.owner = caller /\ ret'.id = id
    /\ remove_expense(ret'.authorized, caller, id)

----------------------------------------------------------------------------
(* C1 *)

\* C1: for every owner, the k-th add_expense call returns id k: the ids
\* returned are 1, 2, 3, ... in call order, none missing, none twice, also
\* once the owner's counter has reached the maximum of u64.
C1_IdsCountCalls ==
    \A o \in Owners : \A k \in 1 .. Len(issued[o]) : issued[o][k] = k

----------------------------------------------------------------------------
(* C2 *)

\* C2 as stated: once remove_expense(caller, id) has succeeded, another
\* remove_expense(caller, id) fails with NotFound.
C2_SecondRemoveNotFound ==
    [][\A c \in Owners, id \in IdArgs :
          (<<c, id>> \in removed /\ Removes(c, id))
              => ret'.status = "NotFound"]_vars

\* C2 (amended): once remove_expense(caller, id) has succeeded, every later
\* remove_expense(caller, id) succeeds too: the record is still stored, the
\* call never fails with NotFound and writes the deleted marker again with
\* the ledger time of that call.
C2_SecondRemoveSucceeds ==
    [][\A c \in Owners, id \in IdArgs :
          (<<c, id>> \in removed /\ Removes(c, id))
              => /\ ret'.status = "ok"
                 /\ Has(Record', <<c, id>>)
                 /\ Record'[<<c, id>>].ts = now]_vars

\* a remove_expense that directly repeats a successful one, after the clock
\* has moved on
C2_Witness ==
    /\ ret.op = "remove_expense" /\ ret.status = "ok" /\ ret.again
    /\ <<ret.owner, ret.id>> \in removed
    /\ Record[<<ret.owner, ret.id>>].ts = now
    /\ now > 43200

----------------------------------------------------------------------------
(* C3 *)

\* C3 as stated: daily_total(owner) is the sum of the stored amounts of the
\* ids in OwnerIndex[owner] whose stored day is now/86400, weekly_total the
\* same with week and now/604800, and an id that has been removed adds
\* nothing to either.
C3_TotalsAreExactSums ==
    \A o \in Owners :
        LET ids == Range(ListIds(OwnerIndex, o))
            kept == {id \in ids : <<o, id>> \notin removed}
        IN  /\ Daily(o).status = "ok"
            /\ Daily(o).val = SumOfIds(Record, o, ids, "day", Today)
            /\ Daily(o).val = SumOfIds(Record, o, kept, "day", Today)
            /\ Weekly(o).status = "ok"
            /\ Weekly(o).val = SumOfIds(Record, o, ids, "week", ThisWeek)
            /\ Weekly(o).val = SumOfIds(Record, o, kept, "week", ThisWeek)

\* a record that would add the largest amount to both totals of the moment
Poison(o, id) == NewExpense(id, o, now, "x", U128Max, "x")

\* C3 (amended): daily_total(owner) is the sum, capped at the maximum of
\* u128, over the entries of OwnerIndex[owner] (an id listed twice counts
\* twice) of the stored amounts whose stored day is now/86400, weekly_total
\* the same with week and now/604800; an id that is not in
\* OwnerIndex[owner] adds nothing to either total, whatever its record holds
\* and whatever the time.
C3_TotalsAreCappedSums ==
    \A o \in Owners :
        LET ids == ListIds(OwnerIndex, o)
        IN  /\ Daily(o).status = "ok"
            /\ Daily(o).val =
                   Min(U128Max, SumOfEntries(Record, o, ids, "day", Today))
            /\ Weekly(o).status = "ok"
            /\ Weekly(o).val =
                   Min(U128Max, SumOfEntries(Record, o, ids, "week", ThisWeek))
            /\ \A id \in 1 .. U64Max :
                   id \notin Range(ids) =>
                       LET rec == Set(Record, <<o, id>>, Poison(o, id))
                       IN  /\ DailyTotal(rec, OwnerIndex, now, o) = Daily(o)
                           /\ WeeklyTotal(rec, OwnerIndex, now, o) = Weekly(o)

\* an owner with a removed id out of the index and an indexed expense of an
\* earlier day of this week: the weekly total counts it, the daily does not
C3_Witness ==
    \E o \in Owners :
        /\ \E id \in 1 .. U64Max :
               <<o, id>> \in removed /\ id \notin Range(ListIds(OwnerIndex, o))
        /\ Daily(o).status = "ok" /\ Weekly(o).status = "ok"
        /\ Weekly(o).val > Daily(o).val

----------------------------------------------------------------------------
(* C4 *)

\* C4: add_expense(caller, ...) and remove_expense(caller, id) change the
\* store only when caller authorized the invoking transaction: a call that
\* caller did not authorize fails and leaves Count, Record and OwnerIndex
\* as they were.
C4_UnauthorizedCallFails ==
    [][\A c \in Owners :
          /\ (Adds(c) /\ ~ret'.authorized)
                 => (ret'.status # "ok" /\ UNCHANGED store)
          /\ \A id \in IdArgs :
                 (Removes(c, id) /\ ~ret'.authorized)
                     => (ret'.status \notin {"ok", "NotFound"}
                         /\ UNCHANGED store)]_vars

----------------------------------------------------------------------------
(* C5 *)

Without(seq, id) == LET Keep(x) == x # id IN SelectSeq(seq, Keep)

LiveInAddOrder(o) == LET IsLive(x) == x \in live[o] IN SelectSeq(issued[o], IsLive)

\* the list of every owner holds the ids assigned and not removed since,
\* in the order they were added, each once
ListIsLiveIdsOnce ==
    \A o \in Owners :
        /\ ListIds(OwnerIndex, o) = LiveInAddOrder(o)
        /\ NoDuplicates(ListIds(OwnerIndex, o))

\* C5: list_my_expense_ids(owner) returns exactly the ids assigned to owner
\* and not removed since, each once, in the order they were added;
\* add_expense appends the new id at the end and remove_expense(owner, id)
\* deletes id and keeps the order of the others.
C5_ListIsLiveIdsInAddOrder ==
    /\ []ListIsLiveIdsOnce
    /\ [][/\ \A c \in Owners :
                  Adds(c) => ListIds(OwnerIndex', c)
                                 = Append(ListIds(OwnerIndex, c), ret'.id)
          /\ \A c \in Owners, id \in IdArgs :
                 (Removes(c, id) /\ ret'.status = "ok")
                     => ListIds(OwnerIndex', c)
                            = Without(ListIds(OwnerIndex, c), id)]_vars

----------------------------------------------------------------------------
(* C6 *)

\* C6: expenses_count(owner) is the number of ids ever assigned to owner
\* (0 if none): each successful add_expense by owner raises it by one and
\* remove_expense never changes it.
C6_CountIsIdsEverAssigned ==
    [][/\ \A o \in Owners :
              ExpensesCount(Count', o) = Cardinality(Range(issued'[o]))
       /\ \A c \in Owners :
              Adds(c) => ExpensesCount(Count', c) = ExpensesCount(Count, c) + 1
       /\ \A c \in Owners, id \in IdArgs :
              Removes(c, id) => Count' = Count]_vars

----------------------------------------------------------------------------
(* C7 *)

\* ids asked for: 0, every id a counter can hold, and one beyond
ViewIds == 0 .. U64Max + 1

\* view_expense(owner, id) fails with NotFound exactly for the ids that
\* add_expense never returned to owner, and succeeds for the others
ViewFailsExactlyForNeverCreated ==
    \A o \in Owners :
        LET created == Range(issued[o])
        IN  \A id \in ViewIds :
                LET status == ViewExpense(Record, o, id).status
                IN  /\ status = "NotFound" <=> id \notin created
                    /\ status = "ok" <=> id \in created

\* C7: a record, once created by add_expense, exists in every later state:
\* view_expense(owner, id) succeeds from then on, also after
\* remove_expense(owner, id), when it returns the deleted marker as a normal
\* record; view_expense fails with NotFound exactly for the (owner, id)
\* that add_expense never created.
C7_RecordsArePermanent ==
    /\ []ViewFailsExactlyForNeverCreated
    /\ [][/\ Record' # Record =>
                  \A key \in DOMAIN Record :
                      ViewExpense(Record', key[1], key[2]).status = "ok"
          /\ \A c \in Owners, id \in IdArgs :
                 (Removes(c, id) /\ ret'.status = "ok")
                     => ViewExpense(Record', c, id)
                            = [status |-> "ok", val |-> Deleted(id, c, now)]]_vars

\* view_expense has returned the deleted marker of a removed id
C7_Witness ==
    /\ ret.op = "view_expense" /\ ret.status = "ok"
    /\ <<ret.owner, ret.id>> \in removed
    /\ ret.id \notin live[ret.owner]
    /\ ret.val.category = "DELETED"

----------------------------------------------------------------------------
(* C8 *)

\* C8: after a successful remove_expense(caller, id), Record[caller, id] is
\* the deleted marker: id and owner as before, category "DELETED", amount 0,
\* day 0, week 0, note "", and ts the ledger time of the removal.
C8_RemoveWritesDeletedMarker ==
    [][\A c \in Owners, id \in IdArgs :
          (Removes(c, id) /\ ret'.status = "ok")
              => LET old == Record[<<c, id>>]
                     new == Record'[<<c, id>>]
                 IN  /\ new.id = old.id /\ new.id = id
                     /\ new.owner = old.owner /\ new.owner = c
                     /\ new.category = "DELETED"
                     /\ new.amount = 0
                     /\ new.day = 0
                     /\ new.week = 0
                     /\ new.note = ""
                     /\ new.ts = now]_vars

\* an id has just been removed for the first time, in a week later than
\* week 0: the marker's buckets are 0, not those of its ts
C8_Witness ==
    /\ ret.op = "remove_expense" /\ ret.status = "ok" /\ ~ret.again
    /\ Record[<<ret.owner, ret.id>>].ts = now
    /\ Record[<<ret.owner, ret.id>>].day = 0
    /\ ThisWeek > 0
    /\ ret.id \notin live[ret.owner]

----------------------------------------------------------------------------
(* C9 *)

\* C9: if a live id of owner was created in the current day bucket, then
\* remove_expense(owner, id) lowers daily_total(owner) by exactly the amount
\* of that expense and leaves what every other expense adds unchanged,
\* provided the sum does not saturate.
C9_RemoveLowersDailyTotal ==
    [][\A c \in Owners, id \in IdArgs :
          ( /\ Removes(c, id)
            /\ id \in Range(ListIds(OwnerIndex, c))
            /\ Has(Record, <<c, id>>)
            /\ Record[<<c, id>>].day = Today
            /\ SumOfEntries(Record, c, ListIds(OwnerIndex, c), "day", Today)
                   <= U128Max )
              => /\ DailyTotal(Record', OwnerIndex', now', c).status = "ok"
                 /\ DailyTotal(Record', OwnerIndex', now', c).val
                        = Daily(c).val - Record[<<c, id>>].amount
                 /\ \A other \in (1 .. U64Max) \ {id} :
                        Contribution(Record', c, other, "day", Today)
                            = Contribution(Record, c, other, "day", Today)]_vars

----------------------------------------------------------------------------
(* C10 *)

\* C10: for any caller and id, OwnerIndex[caller] after two consecutive
\* remove_expense(caller, id) calls is the one after the first call.
C10_RemoveIsIdempotentOnIndex ==
    [][\A c \in Owners, id \in IdArgs :
          ( /\ ret.op = "remove_expense" /\ ret.owner = c /\ ret.id = id
            /\ Removes(c, id) )
              => OwnerIndex' = OwnerIndex]_vars

\* a second remove_expense of an id directly after the one that took it out
\* of an index that still lists another id
C10_Witness ==
    /\ ret.op = "remove_expense" /\ ret.again /\ ret.status = "ok"
    /\ ret.id \notin Range(ListIds(OwnerIndex, ret.owner))
    /\ ListIds(OwnerIndex, ret.owner) # <<>>

----------------------------------------------------------------------------
(* C11 *)

\* C11: the counter increment of add_expense saturates.  The k-th id handed
\* to an owner is k capped at u64::MAX and Counter[owner] is the number of
\* add_expense calls capped at u64::MAX, so an add_expense at Counter[owner]
\* = u64::MAX leaves the counter at u64::MAX and returns u64::MAX as the id;
\* when that call has just returned, its result is the counter value.
C11_CounterSaturates ==
    \A c \in Owners :
        /\ \A k \in 1 .. Len(issued[c]) : issued[c][k] = Min(k, U64Max)
        /\ ExpensesCount(Count, c) = Min(Len(issued[c]), U64Max)
        /\ (ret.op = "add_expense" /\ ret.owner = c)
              => ret.val = ExpensesCount(Count, c)

\* add_expense has just returned to an owner whose counter was u64::MAX
\* before the call
C11_Witness ==
    /\ ret.op = "add_expense"
    /\ Len(issued[ret.owner]) > U64Max
    /\ ret.val = U64Max
    /\ ExpensesCount(Count, ret.owner) = U64Max

----------------------------------------------------------------------------
(* C12 *)

\* C12: no Record[caller, id] exists for id = 0 or for an id above
\* Counter[caller], whatever the other owners hold; and remove_expense(caller,
\* id) on a Record[caller, id] that does not exist fails with NotFound and
\* leaves Counter, Record and OwnerIndex as they were.
C12_RemoveOfMissingRecordFails ==
    /\ [](\A c \in Owners, id \in IdArgs :
             (id = 0 \/ id > ExpensesCount(Count, c))
                => ~Has(Record, <<c, id>>))
    /\ [][\A c \in Owners, id \in IdArgs :
             (~Has(Record, <<c, id>>) /\ Removes(c, id))
                => (ret'.status = "NotFound" /\ store' = store)]_vars

\* remove_expense has just failed for an id that only another owner holds
C12_Witness ==
    /\ ret.op = "remove_expense" /\ ret.status = "NotFound"
    /\ ~Has(Record, <<ret.owner, ret.id>>)
    /\ \E o \in Owners \ {ret.owner} :
          /\ Has(Record, <<o, ret.id>>)
          /\ ret.id \in Range(ListIds(OwnerIndex, o))

----------------------------------------------------------------------------
(* The auction ledger, as section 4.2 of the specification describes it.    *)
(* Every call is one atomic step; a failing call writes nothing.            *)

ListingIds == {1, 2}

Principals == {"seller", "b1"}

\* the ask prices create_listing is called with
AskPrices == {0, 100}

\* the amounts place_bid is called with
BidAmounts == {0, 90, 100, 150}

\* best_bidder of a listing without an accepted bid
None == "None"

\* the record of an auction call; amount is the price or bid passed, 0 for
\* the calls that take none; val is what a read returned, None otherwise
ACall(op, listing_id, caller, amount, status, val) ==
    [op |-> op, listing_id |-> listing_id, caller |-> caller,
     amount |-> amount, status |-> status, val |-> val]

NewListing(listing_id, seller, asset_desc, ask_price) ==
    [listing_id |-> listing_id, seller |-> seller, asset_desc |-> asset_desc,
     ask_price |-> ask_price, status |-> "Open", best_bid |-> 0,
     best_bidder |-> None]

\* a bid check that lets a bid equal to the best bid through
BidTooLowAllowsEqual(l, amount) == amount < l.ask_price \/ amount < l.best_bid

\* the check place_bid applies to an amount
BidTooLow(l, amount) == amount < l.ask_price \/ amount <= l.best_bid

\* a lock check that is satisfied by a listing without a bid
HasValidBidNonNegative(l) == l.best_bid >= 0

\* the check lock_trade applies to the best bid
HasValidBid(l) == l.best_bid > 0 /\ l.best_bidder # None

create_listing(listing_id, seller, asset_desc, ask_price) ==
    LET fail(e) == /\ aret' = ACall("create_listing", listing_id, seller,
                                    ask_price, e, None)
                   /\ UNCHANGED <<Listing, Bids>>
    IN  /\ IF ask_price <= 0 THEN fail("InvalidArgument")
           ELSE IF Has(Listing, listing_id) THEN fail("AlreadyExists")
           ELSE /\ Listing' = Set(Listing, listing_id,
                                  NewListing(listing_id, seller, asset_desc,
                                             ask_price))
                /\ Bids' = Set(Bids, listing_id, <<>>)
                /\ aret' = ACall("create_listing", listing_id, seller,
                                 ask_price, "ok", None)
        /\ UNCHANGED expenseLedger

place_bid(listing_id, bidder, amount) ==
    LET fail(e) == /\ aret' = ACall("place_bid", listing_id, bidder, amount, e,
                                    None)
                   /\ UNCHANGED <<Listing, Bids>>
    IN  /\ IF amount <= 0 THEN fail("InvalidArgument")
           ELSE IF ~Has(Listing, listing_id) THEN fail("NotFound")
           ELSE IF Listing[listing_id].status # "Open" THEN fail("InvalidState")
           ELSE IF BidTooLow(Listing[listing_id], amount) THEN fail("BidTooLow")
           ELSE /\ Listing' = [Listing EXCEPT ![listing_id].best_bid = amount,
                                              ![listing_id].best_bidder = bidder]
                /\ Bids' = [Bids EXCEPT ![listing_id] =
                                            Append(@, <<bidder, amount>>)]
                /\ aret' = ACall("place_bid", listing_id, bidder, amount, "ok",
                                 None)
        /\ UNCHANGED expenseLedger

\* a transition that any principal may make
TransitionByAnyone(l, caller, from, to, needs_bid) ==
    IF l.status # from THEN [status |-> "InvalidState", listing |-> l]
    ELSE IF needs_bid /\ ~HasValidBid(l)
         THEN [status |-> "NoValidBid", listing |-> l]
    ELSE [status |-> "ok", listing |-> [l EXCEPT !.status = to]]

\* a transition that does not look at the status the listing is in
TransitionFromAnyStatus(l, caller, from, to, needs_bid) ==
    IF caller # l.seller THEN [status |-> "Unauthorized", listing |-> l]
    ELSE IF needs_bid /\ ~HasValidBid(l)
         THEN [status |-> "NoValidBid", listing |-> l]
    ELSE [status |-> "ok", listing |-> [l EXCEPT !.status = to]]

\* the outcome of a seller-only transition of listing l from one status to
\* another: the error, or "ok" and the listing as the call stores it
Transition(l, caller, from, to, needs_bid) ==
    IF caller # l.seller THEN [status |-> "Unauthorized", listing |-> l]
    ELSE IF l.status # from THEN [status |-> "InvalidState", listing |-> l]
    ELSE IF needs_bid /\ ~HasValidBid(l)
         THEN [status |-> "NoValidBid", listing |-> l]
    ELSE [status |-> "ok", listing |-> [l EXCEPT !.status = to]]

\* a seller-only call applies its transition to the stored listing
Apply(op, listing_id, caller, from, to, needs_bid) ==
    IF ~Has(Listing, listing_id)
    THEN /\ aret' = ACall(op, listing_id, caller, 0, "NotFound", None)
         /\ UNCHANGED <<Listing, Bids>>
    ELSE LET r == Transition(Listing[listing_id], caller, from, to, needs_bid)
         IN  /\ Listing' = [Listing EXCEPT ![listing_id] = r.listing]
             /\ aret' = ACall(op, listing_id, caller, 0, r.status, None)
             /\ UNCHANGED Bids

lock_trade(listing_id, caller) ==
    /\ Apply("lock_trade", listing_id, caller, "Open", "Locked", TRUE)
    /\ UNCHANGED expenseLedger

complete_trade(listing_id, caller) ==
    /\ Apply("complete_trade", listing_id, caller, "Locked", "Completed", FALSE)
    /\ UNCHANGED expenseLedger

cancel_listing(listing_id, caller) ==
    /\ Apply("cancel_listing", listing_id, caller, "Open", "Cancelled", FALSE)
    /\ UNCHANGED expenseLedger

get_listing(listing_id) ==
    /\ aret' = ACall("get_listing", listing_id, None, 0, "ok",
                     GetOr(Listing, listing_id, None))
    /\ UNCHANGED <<Listing, Bids, expenseLedger>>

get_bids(listing_id) ==
    /\ aret' = ACall("get_bids", listing_id, None, 0, "ok",
                     GetOr(Bids, listing_id, None))
    /\ UNCHANGED <<Listing, Bids, expenseLedger>>

AuctionNext ==
    \/ \E id \in ListingIds, p \in Principals, a \in AskPrices :
          create_listing(id, p, "desc", a)
    \/ \E id \in ListingIds, p \in Principals, a \in BidAmounts :
          place_bid(id, p, a)
    \/ \E id \in ListingIds, p \in Principals : lock_trade(id, p)
    \/ \E id \in ListingIds, p \in Principals : complete_trade(id, p)
    \/ \E id \in ListingIds, p \in Principals : cancel_listing(id, p)
    \/ \E id \in ListingIds : get_listing(id)
    \/ \E id \in ListingIds : get_bids(id)

\* the auction ledger alone: the expense ledger stays empty, the clock (which
\* no auction operation reads) at its first sample
AuctionInit == Init /\ \A t \in Times : now <= t

SpecAuction == AuctionInit /\ [][AuctionNext]_vars

----------------------------------------------------------------------------
(* Vocabulary of the auction properties *)

\* the step is the call op(listing_id, caller) of a seller-only operation
Locks(id, p) == aret'.op = "lock_trade" /\ lock_trade(id, p)
Completes(id, p) == aret'.op = "complete_trade" /\ complete_trade(id, p)
Cancels(id, p) == aret'.op = "cancel_listing" /\ cancel_listing(id, p)

\* the step is a place_bid(listing_id, bidder, amount) call
PlacesBid(id, p, a) == aret'.op = "place_bid" /\ place_bid(id, p, a)

\* the status changes the lifecycle allows
Lifecycle == {<<"Open", "Locked">>, <<"Locked", "Completed">>,
              <<"Open", "Cancelled">>}

\* a step changes the status of a stored listing only along the lifecycle,
\* and changes neither a Completed nor a Cancelled listing nor its bids
StatusFollowsLifecycle(id) ==
    Has(Listing, id) =>
        /\ Has(Listing', id)
        /\ Listing'[id].status # Listing[id].status
              => <<Listing[id].status, Listing'[id].status>> \in Lifecycle
        /\ Listing[id].status \in {"Completed", "Cancelled"}
              => (Listing'[id] = Listing[id] /\ Bids'[id] = Bids[id])

----------------------------------------------------------------------------
(* C13 *)

\* C13 as stated: the status of a listing only moves Open -> Locked, Locked
\* -> Completed or Open -> Cancelled and a Completed or Cancelled listing
\* never changes; every complete_trade on a listing that is not Locked and
\* every cancel_listing on a Locked listing fails with InvalidState.
C13_WrongStateIsInvalidState ==
    [][\A id \in ListingIds :
          /\ StatusFollowsLifecycle(id)
          /\ \A p \in Principals :
                /\ ( /\ Has(Listing, id) /\ Listing[id].status # "Locked"
                     /\ Completes(id, p) )
                      => aret'.status = "InvalidState"
                /\ ( /\ Has(Listing, id) /\ Listing[id].status = "Locked"
                     /\ Cancels(id, p) )
                      => aret'.status = "InvalidState"]_vars

\* C13, amended: the status of a listing only moves Open -> Locked, Locked ->
\* Completed or Open -> Cancelled and a Completed or Cancelled listing never
\* changes; a complete_trade on a listing that is not Locked and a
\* cancel_listing on a Locked listing fail and leave the listing and its bids
\* as they were, with InvalidState when the caller is the seller and with
\* Unauthorized when it is not.
C13_WrongStateFails ==
    [][\A id \in ListingIds :
          /\ StatusFollowsLifecycle(id)
          /\ \A p \in Principals :
                ( /\ Has(Listing, id)
                  /\ \/ Listing[id].status # "Locked" /\ Completes(id, p)
                     \/ Listing[id].status = "Locked" /\ Cancels(id, p) )
                   => /\ aret'.status = IF p = Listing[id].seller
                                        THEN "InvalidState"
                                        ELSE "Unauthorized"
                      /\ UNCHANGED <<Listing, Bids>>]_vars

\* the seller's cancel_listing has just failed on a Locked listing, while
\* the other listing went through Locked to Completed
C13_Witness ==
    /\ aret.op = "cancel_listing" /\ aret.status = "InvalidState"
    /\ Listing[aret.listing_id].status = "Locked"
    /\ \E id \in ListingIds \ {aret.listing_id} :
          Has(Listing, id) /\ Listing[id].status = "Completed"

----------------------------------------------------------------------------
(* C14 *)

\* C14: best_bid of a listing never decreases, and it changes only in a
\* place_bid call that succeeds.  place_bid succeeds only with amount >=
\* ask_price and amount > best_bid; it then stores amount and the bidder as
\* the best bid and appends (bidder, amount) to the bid history.  A bid equal
\* to best_bid is never accepted, and on an Open listing a positive one is
\* rejected with BidTooLow.  A rejected bid leaves best_bid, best_bidder and
\* the bid history (the whole store) as they were.
C14_BestBidStrictlyIncreases ==
    [][\A id \in ListingIds :
          Has(Listing, id) =>
             /\ Listing'[id].best_bid >= Listing[id].best_bid
             /\ Listing'[id].best_bid # Listing[id].best_bid
                   => /\ aret'.op = "place_bid" /\ aret'.status = "ok"
                      /\ aret'.listing_id = id
             /\ \A p \in Principals, a \in BidAmounts :
                   PlacesBid(id, p, a) =>
                      /\ aret'.status = "ok"
                            => /\ a >= Listing[id].ask_price
                               /\ a > Listing[id].best_bid
                               /\ Listing'[id].best_bid = a
                               /\ Listing'[id].best_bidder = p
                               /\ Bids'[id] = Append(Bids[id], <<p, a>>)
                      /\ aret'.status # "ok"
                            => UNCHANGED <<Listing, Bids>>
                      /\ a = Listing[id].best_bid
                            => /\ aret'.status # "ok"
                               /\ (a > 0 /\ Listing[id].status = "Open")
                                     => aret'.status = "BidTooLow"]_vars

\* a principal has just bid exactly the best bid another bidder holds, and
\* was rejected with BidTooLow
C14_Witness ==
    /\ aret.op = "place_bid" /\ aret.status = "BidTooLow"
    /\ aret.amount = Listing[aret.listing_id].best_bid
    /\ aret.amount >= Listing[aret.listing_id].ask_price
    /\ Listing[aret.listing_id].best_bidder \in Principals \ {aret.caller}

\* C14 as stated: moreover every bid equal to the best_bid of its listing is
\* rejected with BidTooLow, whatever the amount and the status of the listing.
C14_EqualBidIsBidTooLow ==
    [][\A id \in ListingIds, p \in Principals, a \in BidAmounts :
          ( /\ Has(Listing, id) /\ a = Listing[id].best_bid
            /\ PlacesBid(id, p, a) )
              => aret'.status = "BidTooLow"]_vars

----------------------------------------------------------------------------
(* C15 *)

\* every Locked or Completed listing holds an accepted bid: best_bid > 0,
\* best_bid >= ask_price, a best_bidder, and a bid history ending in that bid
LockedListingsHaveABid ==
    \A id \in ListingIds :
        (Has(Listing, id) /\ Listing[id].status \in {"Locked", "Completed"})
           => /\ Listing[id].best_bid > 0
              /\ Listing[id].best_bid >= Listing[id].ask_price
              /\ Listing[id].best_bidder \in Principals
              /\ Bids[id] # <<>>
              /\ Bids[id][Len(Bids[id])]
                    = <<Listing[id].best_bidder, Listing[id].best_bid>>

\* C15 as stated: every Locked or Completed listing has best_bid > 0,
\* best_bid >= ask_price and a best_bidder, and every lock_trade on a listing
\* with no accepted bid fails with NoValidBid.
C15_LockWithoutBidIsNoValidBid ==
    /\ []LockedListingsHaveABid
    /\ [][\A id \in ListingIds, p \in Principals :
             (Has(Listing, id) /\ Bids[id] = <<>> /\ Locks(id, p))
                => aret'.status = "NoValidBid"]_vars

\* C15, amended: every Locked or Completed listing has best_bid > 0, best_bid
\* >= ask_price and a best_bidder; a lock_trade on a listing with no accepted
\* bid fails and leaves the listing as it was, with NoValidBid when the
\* seller calls it on an Open listing, with InvalidState when the seller
\* calls it on a listing that is not Open, and with Unauthorized when the
\* caller is not the seller.
C15_LockWithoutBidFails ==
    /\ []LockedListingsHaveABid
    /\ [][\A id \in ListingIds, p \in Principals :
             (Has(Listing, id) /\ Bids[id] = <<>> /\ Locks(id, p))
                => /\ aret'.status =
                         IF p # Listing[id].seller THEN "Unauthorized"
                         ELSE IF Listing[id].status # "Open"
                              THEN "InvalidState"
                         ELSE "NoValidBid"
                   /\ UNCHANGED <<Listing, Bids>>]_vars

\* the seller's lock_trade has just failed on an Open listing without a bid,
\* while the other listing is Locked
C15_Witness ==
    /\ aret.op = "lock_trade" /\ aret.status = "NoValidBid"
    /\ Listing[aret.listing_id].status = "Open"
    /\ Bids[aret.listing_id] = <<>>
    /\ \E id \in ListingIds \ {aret.listing_id} :
          Has(Listing, id) /\ Listing[id].status = "Locked"

----------------------------------------------------------------------------
(* C16 *)

\* C16: the seller of a listing never changes; the status of a listing
\* changes only in a lock_trade, complete_trade or cancel_listing call whose
\* caller is the seller; and such a call by any other principal fails with
\* Unauthorized, whatever the status of the listing, and changes nothing.
C16_OnlyTheSellerMovesAListing ==
    [][\A id \in ListingIds :
          Has(Listing, id) =>
             /\ Listing'[id].seller = Listing[id].seller
             /\ Listing'[id].status # Listing[id].status
                   => /\ aret'.op \in {"lock_trade", "complete_trade",
                                       "cancel_listing"}
                      /\ aret'.listing_id = id
                      /\ aret'.caller = Listing[id].seller
                      /\ aret'.status = "ok"
             /\ \A p \in Principals \ {Listing[id].seller} :
                   (Locks(id, p) \/ Completes(id, p) \/ Cancels(id, p))
                      => /\ aret'.status = "Unauthorized"
                         /\ UNCHANGED <<Listing, Bids>>]_vars

\* the best bidder has just called complete_trade on a Locked listing and
\* was refused
C16_Witness ==
    /\ aret.op = "complete_trade" /\ aret.status = "Unauthorized"
    /\ Listing[aret.listing_id].status = "Locked"
    /\ aret.caller = Listing[aret.listing_id].best_bidder
    /\ aret.caller # Listing[aret.listing_id].seller

----------------------------------------------------------------------------
(* C17 *)

\* the exact sum of the amounts of the entries of ids that were created in
\* the bucket (of the given width) the time t lies in
RECURSIVE CreatedInBucketSum(_, _, _, _, _)
CreatedInBucketSum(rec, owner, ids, width, t) ==
    IF ids = <<>> THEN 0
    ELSE LET e == rec[<<owner, Head(ids)>>]
         IN  (IF e.ts \div width = t \div width THEN e.amount ELSE 0)
             + CreatedInBucketSum(rec, owner, Tail(ids), width, t)

\* every indexed expense carries the day and week of its creation time, and
\* it counts in daily_total (weekly_total) exactly while the clock is in the
\* day (week) it was created in
IndexedExpensesCountInCreationBucket ==
    \A o \in Owners :
        LET ids == ListIds(OwnerIndex, o) IN
        /\ \A i \in 1 .. Len(ids) :
              LET e == Record[<<o, ids[i]>>] IN
              /\ e.ts <= now
              /\ e.day = e.ts \div DAY /\ e.week = e.ts \div WEEK
              /\ TotalLoop(Record, o, <<ids[i]>>, 1, 0, "day", Today).val
                    = IF Today = e.ts \div DAY THEN e.amount ELSE 0
              /\ TotalLoop(Record, o, <<ids[i]>>, 1, 0, "week", ThisWeek).val
                    = IF ThisWeek = e.ts \div WEEK THEN e.amount ELSE 0
        /\ Daily(o).val
              = Min(CreatedInBucketSum(Record, o, ids, DAY, now), U128Max)
        /\ Weekly(o).val
              = Min(CreatedInBucketSum(Record, o, ids, WEEK, now), U128Max)

\* C17: add_expense stores ts = now, day = now / 86400 and week = now /
\* 604800 in the new record, and the record of an expense stays as it was
\* created (a step that moves the clock rewrites no record, and no step
\* rewrites the record of an id that stays indexed); so an indexed expense
\* counts in daily_total(owner) (and in weekly_total(owner)) for every query
\* made while the clock is in the day (week) it was created in, and no longer
\* once the clock is in a later one.
C17_BucketsAreFixedAtCreation ==
    /\ []IndexedExpensesCountInCreationBucket
    /\ [][/\ \A c \in Owners :
                Adds(c) => LET e == Record'[<<c, ret'.id>>]
                           IN  /\ e.ts = now
                               /\ e.day = now \div DAY
                               /\ e.week = now \div WEEK
          /\ now' # now => Record' = Record
          /\ \A o \in Owners :
                \A id \in Range(ListIds(OwnerIndex, o))
                          \cap Range(ListIds(OwnerIndex', o)) :
                   Record'[<<o, id>>] = Record[<<o, id>>]]_vars

----------------------------------------------------------------------------
(* C18 *)

\* C18: every id in OwnerIndex[owner] has a Record[owner, id]; the id and
\* owner fields of that record are those of its key; the record was written
\* by add_expense and not by a remove_expense since (the id is assigned and
\* not removed since); so daily_total and weekly_total find every record
\* they look up and return a number.
C18_IndexedIdsHaveLiveRecords ==
    \A o \in Owners :
        /\ \A i \in 1 .. Len(ListIds(OwnerIndex, o)) :
              LET id == ListIds(OwnerIndex, o)[i]
                  key == <<o, id>>
              IN  /\ Has(Record, key)
                  /\ Record[key].id = id /\ Record[key].owner = o
                  /\ id \in live[o]
                  /\ ViewExpense(Record, o, id).status = "ok"
        /\ Daily(o).status = "ok" /\ Weekly(o).status = "ok"
        /\ (ret.owner = o /\ ret.op \in {"daily_total", "weekly_total"})
              => ret.status = "ok"

\* a total has just been computed for an owner who removed one expense and
\* still has another one indexed
C18_Witness ==
    /\ ret.op \in {"daily_total", "weekly_total"} /\ ret.status = "ok"
    /\ ListIds(OwnerIndex, ret.owner) # <<>>
    /\ \E key \in removed :
          /\ key[1] = ret.owner
          /\ key[2] \notin live[ret.owner]
          /\ Record[key] = Deleted(key[2], key[1], Record[key].ts)

----------------------------------------------------------------------------
(* C19 *)

\* a partial map without the key k
AllBut(map, k) == [x \in (DOMAIN map) \ {k} |-> map[x]]

\* what the reads return for an owner; a view is the sequence holding the
\* expense, or the empty one for NotFound
ReadsOf(cnt, rec, idx, ts, o) ==
    <<ExpensesCount(cnt, o), ListIds(idx, o), DailyTotal(rec, idx, ts, o),
      WeeklyTotal(rec, idx, ts, o),
      [id \in ViewIds |-> LET r == ViewExpense(rec, o, id)
                          IN  IF r.status = "ok" THEN <<r.val>> ELSE <<>>]>>

\* a step leaves what the reads return for every owner but c as it was
OthersReadTheSame(c) ==
    \A o \in Owners \ {c} :
        ReadsOf(Count', Record', OwnerIndex', now', o)
           = ReadsOf(Count, Record, OwnerIndex, now, o)

\* C19: add_expense(caller, ..) writes Counter[caller], Record[caller, new
\* id] and OwnerIndex[caller] and no other key; remove_expense(caller, id)
\* writes Record[caller, id] and OwnerIndex[caller] and no other key; so a
\* call of one owner leaves the counter, ids, records and totals of every
\* other owner as they were.
C19_CallsWriteOnlyTheCallersKeys ==
    [][\A c \in Owners :
          /\ Adds(c) =>
                /\ AllBut(Count', c) = AllBut(Count, c)
                /\ AllBut(OwnerIndex', c) = AllBut(OwnerIndex, c)
                /\ AllBut(Record', <<c, ret'.id>>)
                      = AllBut(Record, <<c, ret'.id>>)
                /\ OthersReadTheSame(c)
          /\ \A id \in IdArgs :
                Removes(c, id) =>
                   /\ Count' = Count
                   /\ AllBut(OwnerIndex', c) = AllBut(OwnerIndex, c)
                   /\ AllBut(Record', <<c, id>>) = AllBut(Record, <<c, id>>)
                   /\ OthersReadTheSame(c)]_vars

\* an owner has just removed an expense whose id another owner holds too,
\* live and indexed, and then added one more
C19_Witness ==
    /\ ret.op = "add_expense"
    /\ \E key \in removed :
          /\ key[1] = ret.owner
          /\ key[2] \notin live[ret.owner]
          /\ \E o \in Owners \ {ret.owner} :
                /\ key[2] \in Range(ListIds(OwnerIndex, o))
                /\ ViewExpense(Record, o, key[2]).val.category # "DELETED"

----------------------------------------------------------------------------
(* C20 *)

ReadOps == {"view_expense", "list_my_expense_ids", "expenses_count",
            "daily_total", "weekly_total"}

\* nothing is stored under the owner's keys
NoData(o) ==
    /\ ~Has(Count, o) /\ ~Has(OwnerIndex, o)
    /\ \A key \in DOMAIN Record : key[1] # o

\* for an owner with no stored data view_expense fails with NotFound for
\* every id, list_my_expense_ids returns the empty sequence, and
\* expenses_count, daily_total and weekly_total return 0; and a read that
\* has just returned did so without any authorization
ReadsOnNoData ==
    /\ \A o \in Owners :
          NoData(o) =>
             /\ \A id \in ViewIds :
                   ViewExpense(Record, o, id).status = "NotFound"
             /\ ListIds(OwnerIndex, o) = <<>>
             /\ ExpensesCount(Count, o) = 0
             /\ Daily(o) = [status |-> "ok", val |-> 0]
             /\ Weekly(o) = [status |-> "ok", val |-> 0]
    /\ ret.op \in ReadOps =>
          /\ ~ret.authorized
          /\ ret.status = IF ret.op = "view_expense"
                             /\ ~Has(Record, <<ret.owner, ret.id>>)
                          THEN "NotFound" ELSE "ok"
          /\ (NoData(ret.owner) /\ ret.op = "list_my_expense_ids")
                => ret.val = <<>>
          /\ ( /\ NoData(ret.owner)
               /\ ret.op \in {"expenses_count", "daily_total", "weekly_total"} )
                => ret.val = 0

\* C20: view_expense, list_my_expense_ids, expenses_count, daily_total and
\* weekly_total leave Counter, Record and OwnerIndex as they were and run
\* without authorization; for an owner with no stored data they return
\* NotFound, the empty sequence, 0, 0 and 0.
C20_ReadsWriteNothing ==
    /\ []ReadsOnNoData
    /\ [][ret'.op \in ReadOps => store' = store]_vars

\* a read has just returned for an owner with no stored data while the other
\* owner has an expense
C20_Witness ==
    /\ ret.op \in ReadOps /\ NoData(ret.owner)
    /\ \E o \in Owners \ {ret.owner} : ListIds(OwnerIndex, o) # <<>>

====
